---- MODULE Spec2Model ----
(***************************************************************************)
(* Reminder scheduling and delivery subsystem of EyeCare:                  *)
(* NotificationService (scheduledJobs table, node-schedule one-shot jobs,  *)
(* the job callback, _processReminder, sendEmailNotification,              *)
(* restorePendingReminders), the reminders routes that create and delete   *)
(* records, the admin route that deletes a user's reminders, and process   *)
(* start-up / death.                                                       *)
(***************************************************************************)
EXTENDS Integers, FiniteSets, Sequences, TLC

(* ---- bounds ---- *)
MaxTime == 2
MaxJobs == 2
MaxCount == 2

(* ---- program constants ---- *)
maxAttempts == 3

Ids == {"r1", "r2"}
Handles == 1 .. MaxJobs
Times == 0 .. MaxTime
InvalidDate == -1
NoId == "none"

(* a reminder or an id that is null or undefined *)
NullId == "null"
Channels == {"email", "sms"}

VARIABLES
    now,              \* wall clock read by new Date()
    phase,            \* "down" | "start" | "restoring" | "serving"
    emailTransporter, \* TRUE when the constructor built a transporter
    store,            \* Reminder collection: id -> document
    usedIds,          \* ObjectIds generated so far (never reused)
    scheduledJobs,    \* this.scheduledJobs: id -> job handle
    jobs,             \* node-schedule jobs and their running callbacks
    restoreSet,       \* result of the query of restorePendingReminders
    posting,          \* POST /api/reminders handlers after reminder.save()
    deleting,         \* DELETE /api/reminders/:id handlers before deleteOne
    stopping,         \* gracefulShutdown awaits mongoose.disconnect()
    runs,             \* history: callback runs per id
    sends,            \* history: successful sendMail calls per id
    regs,             \* history: successful registrations per id
    cancelled,        \* history: ids cancelled and not registered since
    last,             \* history: the last operation and its return value
    seen,             \* history: what happened during the sleep of each job
    life,             \* history: calls made in this life of the process
    replies,          \* history: status of the reply of POST per id
    watch             \* the histories this specification records

vars == << now, phase, emailTransporter, store, usedIds, scheduledJobs, jobs,
           restoreSet, posting, deleting, stopping, runs, sends, regs,
           cancelled, last, seen, life, replies, watch >>

(* ---- helpers ---- *)
Min(a, b) == IF a < b THEN a ELSE b

Bump(f, id) == [f EXCEPT ![id] = Min(f[id] + 1, MaxCount)]

Without(f, id) == [i \in DOMAIN f \ {id} |-> f[i]]

With(f, id, v) == [i \in DOMAIN f \cup {id} |-> IF i = id THEN v ELSE f[i]]

Ev(op, id, arg, ret) == [op |-> op, id |-> id, arg |-> arg, ret |-> ret]

Empty == [i \in {} |-> 0]

NewLife == [restores |-> 0, cancelAlls |-> 0]

(* a job: st, id, at are the timer; pc, attempt, backoff, result, err are  *)
(* the position and the locals of its callback; calls is history, the      *)
(* sendMail calls the callback has made.                                   *)
FreeJob == [st |-> "free", id |-> NoId, at |-> 0, pc |-> "none",
            attempt |-> 0, backoff |-> 0, result |-> "none", err |-> "none",
            calls |-> 0]

LiveJob(id, dt) == [FreeJob EXCEPT !.st = "live", !.id = id, !.at = dt]

NewReminder(dt, ch) == [status |-> "pending", dateTime |-> dt,
                        notificationType |-> ch, sentAt |-> FALSE,
                        error |-> "none"]

FreeHandles(jbs) == {h \in Handles : jbs[h].st = "free"}

LiveTimers(id) == {h \in Handles : jobs[h].st = "live" /\ jobs[h].id = id}

PastCheck(id) == {h \in Handles : jobs[h].st = "run" /\ jobs[h].id = id
                                  /\ jobs[h].pc \in {"send", "sleep", "save"}}

(* sleep(ms) is a promise settled by setTimeout: the callback that awaits  *)
(* it is suspended and the thread is free for every other callback.        *)
(* the same wait spinning on the clock *)
SleepHoldsThread_Spin(jbs) ==
    \E h \in Handles : jbs[h].st = "run" /\ jbs[h].pc = "sleep"

SleepHoldsThread(jbs) == FALSE

(* job.cancel(): a pending invocation is dropped, a callback that already  *)
(* started is not affected.                                                *)
JobCancel(jbs, h) ==
    IF jbs[h].st = "live" THEN [jbs EXCEPT ![h] = FreeJob] ELSE jbs

(* schedule.scheduleJob(date, fn): null when the date is already behind    *)
(* the clock, otherwise a new job with one pending invocation.             *)
ScheduleJobOk(dt, t) == dt >= t

IsNaNDate(dt) == dt = InvalidDate

(* the same test with < in place of <= *)
NotInFuture_Strict(dt, t) == dt < t

NotInFuture(dt, t) == dt <= t

(* scheduleReminder(reminder) as a function of the table, the jobs and the *)
(* clock: the new table, the new jobs and the returned boolean.            *)
SchedOut(tbl, jbs, ret) == [tbl |-> tbl, jbs |-> jbs, ret |-> ret]

(* the same step without existing.cancel() *)
DropExisting_NoCancel(tbl, jbs, id) ==
    IF id \in DOMAIN tbl
    THEN SchedOut(Without(tbl, id), jbs, FALSE)
    ELSE SchedOut(tbl, jbs, FALSE)

DropExisting(tbl, jbs, id) ==
    IF id \in DOMAIN tbl
    THEN SchedOut(Without(tbl, id), JobCancel(jbs, tbl[id]), FALSE)
    ELSE SchedOut(tbl, jbs, FALSE)

scheduleReminder(tbl, jbs, id, dt, t) ==
    LET d == DropExisting(tbl, jbs, id) IN
    IF id = NullId THEN SchedOut(tbl, jbs, FALSE)
    ELSE IF IsNaNDate(dt) THEN d
    ELSE IF NotInFuture(dt, t) THEN d
    ELSE IF ~ScheduleJobOk(dt, t) THEN d
    ELSE LET h == CHOOSE x \in FreeHandles(d.jbs) :
                      \A y \in FreeHandles(d.jbs) : x <= y
         IN SchedOut(With(d.tbl, id, h),
                     [d.jbs EXCEPT ![h] = LiveJob(id, dt)], TRUE)

(* ---- initial state: process started, store connected, no records ---- *)
InitState ==
    /\ now = 0
    /\ phase = "start"
    /\ emailTransporter \in BOOLEAN
    /\ store = Empty
    /\ usedIds = {}
    /\ scheduledJobs = Empty
    /\ jobs = [h \in Handles |-> FreeJob]
    /\ restoreSet = {}
    /\ posting = Empty
    /\ deleting = {}
    /\ runs = [i \in Ids |-> 0]
    /\ sends = [i \in Ids |-> 0]
    /\ regs = [i \in Ids |-> 0]
    /\ cancelled = {}
    /\ last = Ev("init", NoId, 0, FALSE)
    /\ seen = [h \in Handles |-> {}]
    /\ stopping = FALSE
    /\ life = NewLife
    /\ replies = [i \in Ids |-> 0]

(* res.status(201) after scheduleReminder, whatever it returned           *)
PostReply(ret) == 201

(* ---- history observers, driven by the operation just taken; a         *)
(* specification records the histories named in watch                      *)
CountRuns ==
    runs' = IF "runs" \in watch /\ last'.op = "fire"
            THEN Bump(runs, last'.id) ELSE runs

CountSends ==
    sends' = IF "sends" \in watch /\ last'.op = "sendMail" /\ last'.ret
             THEN Bump(sends, last'.id) ELSE sends

CountRegs ==
    regs' = IF "regs" \in watch /\ last'.op = "schedule" /\ last'.ret
            THEN Bump(regs, last'.id) ELSE regs

TrackCancelled ==
    cancelled' = IF "cancelled" \notin watch THEN cancelled
                 ELSE IF last'.op = "cancel" THEN cancelled \cup {last'.id}
                 ELSE IF last'.op = "schedule" /\ last'.ret
                      THEN cancelled \ {last'.id}
                 ELSE IF last'.op = "crash" THEN {}
                 ELSE cancelled

(* what the operation just taken adds to the record of a job that was     *)
(* and still is in the same sleep: the timer of another reminder fired,    *)
(* the dispatch so begun wrote its status, a scheduleReminder or a         *)
(* cancelScheduledReminder call returned true                              *)
SeenNow(h) ==
    IF last'.op = "fire" /\ last'.id # jobs[h].id THEN {"fire"}
    ELSE IF last'.op = "save" /\ last'.ret /\ last'.id # jobs[h].id
            /\ "fire" \in seen[h] THEN {"done"}
    ELSE IF last'.op = "schedule" /\ last'.ret THEN {"schedule"}
    ELSE IF last'.op = "cancel" /\ last'.ret THEN {"cancel"}
    ELSE {}

TrackSeen ==
    seen' = IF "seen" \notin watch THEN seen
            ELSE [h \in Handles |->
                    IF jobs[h].pc = "sleep" /\ jobs'[h].pc = "sleep"
                    THEN seen[h] \cup SeenNow(h) ELSE {}]

(* the calls of restorePendingReminders and of cancelAllScheduled since    *)
(* the process started; a shutdown step carries the number of              *)
(* cancelAllScheduled calls it made                                        *)
TrackLife ==
    life' = IF "life" \notin watch THEN life
            ELSE IF last'.op = "start" THEN NewLife
            ELSE IF phase = "start"
                    /\ last'.op \in {"query", "restore", "restoreReject"}
                 THEN [life EXCEPT !.restores = Min(@ + 1, MaxCount)]
            ELSE IF last'.op = "cancelAll"
                 THEN [life EXCEPT !.cancelAlls = Min(@ + 1, MaxCount)]
            ELSE IF last'.op = "shutdown"
                 THEN [life EXCEPT !.cancelAlls = Min(@ + last'.arg, MaxCount)]
            ELSE life

(* the reply of POST /api/reminders, sent in the step that calls           *)
(* scheduleReminder for the new record                                     *)
TrackReplies ==
    replies' = IF "replies" \in watch /\ last'.op = "schedule"
                  /\ last'.id \in DOMAIN posting
                  /\ last'.id \notin DOMAIN posting'
               THEN [replies EXCEPT ![last'.id] = PostReply(last'.ret)]
               ELSE replies

ObserveHistory ==
    /\ CountRuns
    /\ CountSends
    /\ CountRegs
    /\ TrackCancelled
    /\ TrackSeen
    /\ TrackLife
    /\ TrackReplies
    /\ watch' = watch

Observe ==
    /\ ObserveHistory
    /\ stopping' = stopping

(* app.listen is called when restorePendingReminders has settled         *)
(* the same start-up with app.listen before the await *)
Listening_Early == phase \in {"restoring", "serving"}

Listening == phase = "serving"

(* ---- the clock ---- *)
Tick ==
    /\ now < MaxTime
    /\ now' = now + 1
    /\ last' = Ev("tick", NoId, 0, FALSE)
    /\ UNCHANGED << phase, emailTransporter, store, usedIds, scheduledJobs,
                    jobs, restoreSet, posting, deleting >>
    /\ Observe

(* ---- NotificationService.scheduleReminder called by any caller with a  *)
(* reminder document that was created before                               *)
ApplySchedule(id, dt) ==
    LET r == scheduleReminder(scheduledJobs, jobs, id, dt, now) IN
    /\ scheduledJobs' = r.tbl
    /\ jobs' = r.jbs
    /\ last' = Ev("schedule", id, dt, r.ret)

ScheduleReminder(id, dt) ==
    /\ ~SleepHoldsThread(jobs)
    /\ Listening
    /\ id \in usedIds \cup {NullId}
    /\ FreeHandles(jobs) # {}
    /\ ApplySchedule(id, dt)
    /\ UNCHANGED << now, phase, emailTransporter, store, usedIds, restoreSet,
                    posting, deleting >>
    /\ Observe

(* ---- NotificationService.cancelScheduledReminder ---- *)
(* the same function clearing the table when the id has no entry *)
cancelScheduledReminder_ClearsTable(tbl, jbs, id) ==
    IF id \in DOMAIN tbl
    THEN SchedOut(Without(tbl, id), JobCancel(jbs, tbl[id]), TRUE)
    ELSE SchedOut(Empty, jbs, FALSE)

cancelScheduledReminder(tbl, jbs, id) ==
    IF id \in DOMAIN tbl
    THEN SchedOut(Without(tbl, id), JobCancel(jbs, tbl[id]), TRUE)
    ELSE SchedOut(tbl, jbs, FALSE)

(* reminderId.toString(), outside any try block *)
ToStringThrows(id) == id = NullId

ApplyCancel(id) ==
    LET r == cancelScheduledReminder(scheduledJobs, jobs, id) IN
    /\ scheduledJobs' = IF ToStringThrows(id) THEN scheduledJobs ELSE r.tbl
    /\ jobs' = IF ToStringThrows(id) THEN jobs ELSE r.jbs
    /\ last' = IF ToStringThrows(id) THEN Ev("cancelThrow", id, 0, FALSE)
                ELSE Ev("cancel", id, 0, r.ret)

CancelScheduledReminder(id) ==
    /\ ~SleepHoldsThread(jobs)
    /\ Listening
    /\ ApplyCancel(id)
    /\ UNCHANGED << now, phase, emailTransporter, store, usedIds, restoreSet,
                    posting, deleting >>
    /\ Observe

(* ---- NotificationService.cancelAllScheduled ---- *)
(* the same loop without job.cancel() *)
CancelAllJobs_NoCancel(tbl, jbs) == jbs

CancelAllJobs(tbl, jbs) ==
    [h \in Handles |->
        IF (\E i \in DOMAIN tbl : tbl[i] = h) /\ jbs[h].st = "live"
        THEN FreeJob ELSE jbs[h]]

CancelAllScheduled ==
    /\ ~SleepHoldsThread(jobs)
    /\ phase = "serving"
    /\ jobs' = CancelAllJobs(scheduledJobs, jobs)
    /\ scheduledJobs' = Empty
    /\ last' = Ev("cancelAll", NoId, Cardinality(DOMAIN scheduledJobs), TRUE)
    /\ UNCHANGED << now, phase, emailTransporter, store, usedIds, restoreSet,
                    posting, deleting >>
    /\ Observe

(* ---- the job callback: the timer fires ---- *)
TimerFire(h) ==
    /\ ~SleepHoldsThread(jobs)
    /\ phase # "down"
    /\ jobs[h].st = "live"
    /\ now >= jobs[h].at
    /\ jobs' = [jobs EXCEPT ![h].st = "run", ![h].at = 0, ![h].pc = "fetch"]
    /\ last' = Ev("fire", jobs[h].id, 0, TRUE)
    /\ UNCHANGED << now, phase, emailTransporter, store, usedIds,
                    scheduledJobs, restoreSet, posting, deleting >>
    /\ Observe

(* the finally block of the callback: the table entry of the id goes, the  *)
(* callback is over                                                        *)
Finally(h) ==
    /\ scheduledJobs' = Without(scheduledJobs, jobs[h].id)
    /\ jobs' = [jobs EXCEPT ![h] = FreeJob]

(* the same test without the status comparison *)
StillPending_AnyStatus(id) == id \in DOMAIN store

StillPending(id) == id \in DOMAIN store /\ store[id].status = "pending"

(* the branch of _processReminder taken for the sms channel                *)
(* the same test never true *)
IsSms_Never(doc) == FALSE

IsSms(doc) == doc.notificationType = "sms"

(* the first test of sendEmailNotification                                 *)
(* the same test never true *)
TransporterMissing_Never == FALSE

TransporterMissing == ~emailTransporter

(* _processReminder up to its first await: the sms branch and the          *)
(* unconfigured transporter give a failure result at once, the email       *)
(* branch issues the first sendMail.                                       *)
EnterProcess(h) ==
    LET id == jobs[h].id IN
    IF IsSms(store[id])
    THEN [jobs EXCEPT ![h].pc = "save", ![h].result = "fail",
                      ![h].err = "SMS not implemented"]
    ELSE IF TransporterMissing
    THEN [jobs EXCEPT ![h].pc = "save", ![h].result = "fail",
                      ![h].err = "Transporter not configured"]
    ELSE [jobs EXCEPT ![h].pc = "send", ![h].attempt = 1]

(* the catch block of the callback takes the rejection of findById and    *)
(* whatever _processReminder throws                                        *)
(* the same callback without its catch block *)
CallbackCatches_Missing == FALSE

CallbackCatches == TRUE

(* Reminder.findById resolves (dbOk) or rejects                            *)
Refetch(h, dbOk) ==
    /\ ~SleepHoldsThread(jobs)
    /\ jobs[h].st = "run"
    /\ jobs[h].pc = "fetch"
    /\ IF dbOk /\ StillPending(jobs[h].id)
       THEN /\ jobs' = EnterProcess(h)
            /\ last' = Ev("process", jobs[h].id, 0, TRUE)
            /\ UNCHANGED scheduledJobs
       ELSE /\ Finally(h)
            /\ last' = Ev(IF dbOk \/ CallbackCatches THEN "abort" ELSE "throw",
                          jobs[h].id, 0, dbOk)
    /\ UNCHANGED << now, phase, emailTransporter, store, usedIds, restoreSet,
                    posting, deleting >>
    /\ Observe

AttemptErr(n) == IF n = 1 THEN "E1" ELSE IF n = 2 THEN "E2" ELSE "E3"

(* one sendMail call of the retry loop returns                             *)
(* the same branch without its return: the loop goes on after a success *)
AfterSendOk_NoReturn(j) ==
    IF j.attempt < maxAttempts
    THEN [j EXCEPT !.pc = "sleep"]
    ELSE [j EXCEPT !.pc = "save", !.result = "ok"]

AfterSendOk(j) == [j EXCEPT !.pc = "save", !.result = "ok"]

(* the same delay without the attempt factor *)
Backoff_Fixed(attempt) == 700

Backoff(attempt) == attempt * 700

(* the same branch without the retry *)
AfterSendFail_NoRetry(j) ==
    [j EXCEPT !.pc = "save", !.result = "fail", !.err = AttemptErr(j.attempt)]

AfterSendFail(j) ==
    IF j.attempt < maxAttempts
    THEN [j EXCEPT !.pc = "sleep", !.backoff = Backoff(j.attempt)]
    ELSE [j EXCEPT !.pc = "save", !.result = "fail",
                   !.err = AttemptErr(j.attempt)]

Called(j) == [j EXCEPT !.calls = @ + 1]

SendMail(h, ok) ==
    /\ ~SleepHoldsThread(jobs)
    /\ jobs[h].st = "run"
    /\ jobs[h].pc = "send"
    /\ jobs' = [jobs EXCEPT ![h] = IF ok THEN AfterSendOk(Called(jobs[h]))
                                        ELSE AfterSendFail(Called(jobs[h]))]
    /\ last' = Ev("sendMail", jobs[h].id, 0, ok)
    /\ UNCHANGED << now, phase, emailTransporter, store, usedIds,
                    scheduledJobs, restoreSet, posting, deleting >>
    /\ Observe

(* sleep(attempt * 700) is over                                            *)
Wake(h) ==
    /\ jobs[h].st = "run"
    /\ jobs[h].pc = "sleep"
    /\ jobs' = [jobs EXCEPT ![h].pc = "send", ![h].attempt = @ + 1,
                             ![h].backoff = 0]
    /\ last' = Ev("wake", jobs[h].id, 0, TRUE)
    /\ UNCHANGED << now, phase, emailTransporter, store, usedIds,
                    scheduledJobs, restoreSet, posting, deleting >>
    /\ Observe

(* reminder.save() then finally. reminder is the document the re-fetch    *)
(* returned with status pending, sentAt and error unset; save() writes the *)
(* paths whose value changed on it to the stored record: status and sentAt *)
(* after a success (error = undefined changes nothing on that document),   *)
(* status and error after a failure.                                       *)
(* the same write with status sent whatever the dispatch returned *)
Saved_AlwaysSent(doc, j) == [doc EXCEPT !.status = "sent", !.sentAt = TRUE]

Saved(doc, j) ==
    IF j.result = "ok"
    THEN [doc EXCEPT !.status = "sent", !.sentAt = TRUE]
    ELSE [doc EXCEPT !.status = "failed", !.error = j.err]

SaveStatus(h, dbOk) ==
    LET id == jobs[h].id IN
    /\ ~SleepHoldsThread(jobs)
    /\ jobs[h].st = "run"
    /\ jobs[h].pc = "save"
    /\ store' = IF dbOk /\ id \in DOMAIN store
                THEN [store EXCEPT ![id] = Saved(store[id], jobs[h])]
                ELSE store
    /\ Finally(h)
    /\ last' = Ev("save", id, 0, dbOk /\ id \in DOMAIN store)
    /\ UNCHANGED << now, phase, emailTransporter, usedIds, restoreSet,
                    posting, deleting >>
    /\ Observe

(* ---- POST /api/reminders ---- *)
CreateSave(id, dt, ch) ==
    /\ ~SleepHoldsThread(jobs)
    /\ Listening
    /\ id \notin usedIds
    /\ dt > now
    /\ store' = With(store, id, NewReminder(dt, ch))
    /\ usedIds' = usedIds \cup {id}
    /\ posting' = With(posting, id, dt)
    /\ last' = Ev("created", id, 0, TRUE)
    /\ UNCHANGED << now, phase, emailTransporter, scheduledJobs, jobs,
                    restoreSet, deleting >>
    /\ Observe

CreateSchedule(id) ==
    /\ ~SleepHoldsThread(jobs)
    /\ id \in DOMAIN posting
    /\ FreeHandles(jobs) # {}
    /\ ApplySchedule(id, posting[id])
    /\ posting' = Without(posting, id)
    /\ UNCHANGED << now, phase, emailTransporter, store, usedIds, restoreSet,
                    deleting >>
    /\ Observe

(* ---- DELETE /api/reminders/:id ---- *)
DeleteCancel(id) ==
    /\ ~SleepHoldsThread(jobs)
    /\ Listening
    /\ id \in DOMAIN store
    /\ id \notin deleting
    /\ ApplyCancel(id)
    /\ deleting' = deleting \cup {id}
    /\ UNCHANGED << now, phase, emailTransporter, store, usedIds, restoreSet,
                    posting >>
    /\ Observe

DeleteCommit(id, dbOk) ==
    /\ ~SleepHoldsThread(jobs)
    /\ id \in deleting
    /\ deleting' = deleting \ {id}
    /\ store' = IF dbOk THEN Without(store, id) ELSE store
    /\ last' = Ev("deleted", id, 0, dbOk)
    /\ UNCHANGED << now, phase, emailTransporter, usedIds, scheduledJobs,
                    jobs, restoreSet, posting >>
    /\ Observe

(* ---- DELETE /api/admin/users/:userId: Reminder.deleteMany ---- *)
AdminDeleteUser(S) ==
    /\ ~SleepHoldsThread(jobs)
    /\ Listening
    /\ S # {}
    /\ S \subseteq DOMAIN store
    /\ store' = [i \in DOMAIN store \ S |-> store[i]]
    /\ last' = Ev("adminDelete", NoId, 0, TRUE)
    /\ UNCHANGED << now, phase, emailTransporter, usedIds, scheduledJobs,
                    jobs, restoreSet, posting, deleting >>
    /\ Observe

(* ---- the process dies: everything in memory is gone ---- *)
Crash ==
    /\ phase # "down"
    /\ phase' = "down"
    /\ scheduledJobs' = Empty
    /\ jobs' = [h \in Handles |-> FreeJob]
    /\ restoreSet' = {}
    /\ posting' = Empty
    /\ deleting' = {}
    /\ stopping' = FALSE
    /\ last' = Ev("crash", NoId, 0, FALSE)
    /\ UNCHANGED << now, emailTransporter, store, usedIds >>
    /\ ObserveHistory

(* ---- the process starts: constructor, then connectDB resolves (dbOk)   *)
(* or rejects and startServer calls process.exit(1)                        *)
Restart(dbOk) ==
    /\ phase = "down"
    /\ phase' = IF dbOk THEN "start" ELSE "down"
    /\ emailTransporter' \in BOOLEAN
    /\ last' = Ev("start", NoId, 0, dbOk)
    /\ UNCHANGED << now, store, usedIds, scheduledJobs, jobs, restoreSet,
                    posting, deleting >>
    /\ Observe

(* ---- restorePendingReminders: the query, then the loop ---- *)
(* the same query without the status condition *)
RestoreFilter_AnyStatus(doc, t) == doc.dateTime > t

RestoreFilter(doc, t) == doc.status = "pending" /\ doc.dateTime > t

(* the same function without its try/catch *)
RestoreCatches_Missing == FALSE

RestoreCatches == TRUE

RestoreQuery(dbOk) ==
    /\ ~SleepHoldsThread(jobs)
    /\ phase = "start"
    /\ IF dbOk
       THEN /\ restoreSet' = {i \in DOMAIN store : RestoreFilter(store[i], now)}
            /\ phase' = "restoring"
            /\ last' = Ev("query", NoId, 0, TRUE)
       ELSE /\ restoreSet' = {}
            /\ phase' = "serving"
            /\ last' = Ev(IF RestoreCatches THEN "restore" ELSE "restoreReject",
                          NoId, 0, FALSE)
    /\ UNCHANGED << now, emailTransporter, store, usedIds, scheduledJobs,
                    jobs, posting, deleting >>
    /\ Observe

RECURSIVE RestoreAll(_, _, _, _)
RestoreAll(S, tbl, jbs, t) ==
    IF S = {} THEN SchedOut(tbl, jbs, TRUE)
    ELSE LET id == CHOOSE i \in S : TRUE
             r == scheduleReminder(tbl, jbs, id, store[id].dateTime, t)
         IN RestoreAll(S \ {id}, r.tbl, r.jbs, t)

RestoreLoop ==
    /\ ~SleepHoldsThread(jobs)
    /\ phase = "restoring"
    /\ LET r == RestoreAll(restoreSet, scheduledJobs, jobs, now) IN
        /\ scheduledJobs' = r.tbl
        /\ jobs' = r.jbs
    /\ restoreSet' = {}
    /\ phase' = "serving"
    /\ last' = Ev("restore", NoId, 0, TRUE)
    /\ UNCHANGED << now, emailTransporter, store, usedIds, posting, deleting >>
    /\ Observe

(* ---- gracefulShutdown ---- *)
(* up to its first await: cancelAllScheduled                               *)
(* the same helper without the call of cancelAllScheduled *)
gracefulShutdown_NoCancel(tbl, jbs) == [tbl |-> tbl, jbs |-> jbs, calls |-> 0]

gracefulShutdown(tbl, jbs) ==
    [tbl |-> Empty, jbs |-> CancelAllJobs(tbl, jbs), calls |-> 1]

(* the listeners of SIGINT and of SIGTERM: one registered when the module  *)
(* loads, one more registered after app.listen                             *)
Handlers(ph) == IF ph = "serving" THEN 2 ELSE 1

ProcessExit ==
    /\ phase' = "down"
    /\ scheduledJobs' = Empty
    /\ jobs' = [h \in Handles |-> FreeJob]
    /\ restoreSet' = {}
    /\ posting' = Empty
    /\ deleting' = {}
    /\ stopping' = FALSE

(* n listeners run gracefulShutdown one after the other. The first run     *)
(* awaits mongoose.disconnect() when the connection is open (conn) and no  *)
(* disconnect is under way; a run that finds the connection not open       *)
(* calls process.exit at once: the second of two listeners does when the   *)
(* disconnect begun by the first has already changed readyState (closing). *)
Shutdown(n, conn, closing) ==
    LET r == gracefulShutdown(scheduledJobs, jobs)
        waits == ~stopping /\ conn
        exits == ~waits \/ (n = 2 /\ closing)
    IN /\ ~SleepHoldsThread(jobs)
       /\ phase # "down"
       /\ IF exits
          THEN ProcessExit
          ELSE /\ scheduledJobs' = r.tbl
               /\ jobs' = r.jbs
               /\ stopping' = TRUE
               /\ UNCHANGED << phase, restoreSet, posting, deleting >>
       /\ last' = Ev("shutdown", NoId, r.calls * (IF waits THEN n ELSE 1), exits)
       /\ UNCHANGED << now, emailTransporter, store, usedIds >>
       /\ ObserveHistory

Signal(conn, closing) == Shutdown(Handlers(phase), conn, closing)

UncaughtException(conn) == Shutdown(1, conn, FALSE)

(* mongoose.disconnect() settles: process.exit(0)                          *)
Disconnected ==
    /\ stopping
    /\ ProcessExit
    /\ last' = Ev("exit", NoId, 0, TRUE)
    /\ UNCHANGED << now, emailTransporter, store, usedIds >>
    /\ ObserveHistory

(* ---- groups of operations ---- *)
Service(I) ==
    \/ \E id \in I, dt \in Times \cup {InvalidDate} : ScheduleReminder(id, dt)
    \/ \E id \in I : CancelScheduledReminder(id)
    \/ CancelAllScheduled

Dispatch ==
    \/ \E h \in Handles : TimerFire(h)
    \/ \E h \in Handles, dbOk \in BOOLEAN : Refetch(h, dbOk)
    \/ \E h \in Handles, ok \in BOOLEAN : SendMail(h, ok)
    \/ \E h \in Handles : Wake(h)
    \/ \E h \in Handles, dbOk \in BOOLEAN : SaveStatus(h, dbOk)

Api(I) ==
    \/ \E id \in I, dt \in Times, ch \in Channels : CreateSave(id, dt, ch)
    \/ \E id \in I : CreateSchedule(id)
    \/ \E id \in I : DeleteCancel(id)
    \/ \E id \in I, dbOk \in BOOLEAN : DeleteCommit(id, dbOk)
    \/ \E S \in SUBSET I : AdminDeleteUser(S)

Lifecycle ==
    \/ Crash
    \/ \E dbOk \in BOOLEAN : Restart(dbOk)
    \/ \E dbOk \in BOOLEAN : RestoreQuery(dbOk)
    \/ RestoreLoop

(* ---- one reminder under every caller of the service ---- *)
Init == InitState /\ watch = {"cancelled"}

Next == Tick \/ Service({"r1"}) \/ Dispatch \/ Api({"r1"}) \/ Lifecycle

Spec == Init /\ [][Next]_vars

(* ---- every reminder, driven through the routes only ---- *)
InitApi == InitState /\ watch = {"sends"}

NextApi == Tick \/ Dispatch \/ Api(Ids) \/ Lifecycle \/ CancelAllScheduled

SpecApi == InitApi /\ [][NextApi]_vars

(* ---- reminders created through the route; r1 is scheduled again, only  *)
(* before its first fire and with a future date; nothing is cancelled or   *)
(* deleted and the process stays up                                        *)
ScheduleBeforeFire(id, dt) ==
    /\ runs[id] = 0
    /\ dt > now
    /\ ScheduleReminder(id, dt)

CreateScheduleBeforeFire(id) ==
    /\ id \in DOMAIN posting
    /\ runs[id] = 0
    /\ posting[id] > now
    /\ CreateSchedule(id)

InitP1 == InitState /\ watch = {"runs", "regs"}

NextP1 ==
    \/ Tick
    \/ \E dt \in Times : ScheduleBeforeFire("r1", dt)
    \/ \E id \in Ids, dt \in Times, ch \in Channels : CreateSave(id, dt, ch)
    \/ \E id \in Ids : CreateScheduleBeforeFire(id)
    \/ Dispatch
    \/ \E dbOk \in BOOLEAN : RestoreQuery(dbOk)
    \/ RestoreLoop

FairP1 ==
    /\ WF_vars(Tick)
    /\ \A h \in Handles : WF_vars(TimerFire(h))

SpecP1 == InitP1 /\ [][NextP1]_vars /\ FairP1

(* ---- two reminders created through the route and dispatched; the       *)
(* service is called for r1 while some dispatch is in retry backoff, the   *)
(* schedule calls with a future date; the process stays up and every       *)
(* store call succeeds                                                     *)
InBackoff == \E h \in Handles : jobs[h].st = "run" /\ jobs[h].pc = "sleep"

ScheduleInBackoff(id, dt) ==
    /\ InBackoff
    /\ dt > now
    /\ ScheduleReminder(id, dt)

CancelInBackoff(id) ==
    /\ InBackoff
    /\ CancelScheduledReminder(id)

InitBackoff == InitState /\ watch = {"seen"}

NextBackoff ==
    \/ Tick
    \/ \E dt \in Times : ScheduleInBackoff("r1", dt)
    \/ CancelInBackoff("r1")
    \/ \E h \in Handles : TimerFire(h)
    \/ \E h \in Handles : Refetch(h, TRUE)
    \/ \E h \in Handles, ok \in BOOLEAN : SendMail(h, ok)
    \/ \E h \in Handles : Wake(h)
    \/ \E h \in Handles : SaveStatus(h, TRUE)
    \/ \E id \in Ids, dt \in Times, ch \in Channels : CreateSave(id, dt, ch)
    \/ \E id \in Ids : CreateSchedule(id)
    \/ RestoreQuery(TRUE)
    \/ RestoreLoop

SpecBackoff == InitBackoff /\ [][NextBackoff]_vars

(* ---- reminders created and scheduled through the route and dispatched; *)
(* nothing is cancelled or deleted, the process stays up, every status     *)
(* write succeeds; the clock advances, a due timer fires and every await   *)
(* of a callback settles                                                   *)
InitLive == InitState /\ watch = {"runs", "replies"}

NextLive ==
    \/ Tick
    \/ \E id \in Ids, dt \in Times, ch \in Channels : CreateSave(id, dt, ch)
    \/ \E id \in Ids : CreateSchedule(id)
    \/ \E h \in Handles : TimerFire(h)
    \/ \E h \in Handles, dbOk \in BOOLEAN : Refetch(h, dbOk)
    \/ \E h \in Handles, ok \in BOOLEAN : SendMail(h, ok)
    \/ \E h \in Handles : Wake(h)
    \/ \E h \in Handles : SaveStatus(h, TRUE)
    \/ \E dbOk \in BOOLEAN : RestoreQuery(dbOk)
    \/ RestoreLoop

FairLive ==
    /\ WF_vars(Tick)
    /\ \A h \in Handles :
          /\ WF_vars(TimerFire(h))
          /\ WF_vars(\E dbOk \in BOOLEAN : Refetch(h, dbOk))
          /\ WF_vars(\E ok \in BOOLEAN : SendMail(h, ok))
          /\ WF_vars(Wake(h))
          /\ WF_vars(SaveStatus(h, TRUE))

SpecLive == InitLive /\ [][NextLive]_vars /\ FairLive

(* ---- the calls of the service with any argument, a null reminder or id  *)
(* included, on one reminder created by POST                               *)
InitCalls == InitState /\ watch = {}

NextCalls ==
    \/ Tick
    \/ Service({"r1", NullId})
    \/ \E dt \in Times, ch \in Channels : CreateSave("r1", dt, ch)
    \/ CreateSchedule("r1")
    \/ Dispatch
    \/ \E dbOk \in BOOLEAN : RestoreQuery(dbOk)
    \/ RestoreLoop

SpecCalls == InitCalls /\ [][NextCalls]_vars

(* ---- one reminder through the routes, with signals, uncaught           *)
(* exceptions, process death and restart                                   *)
InitShutdown == InitState /\ watch = {"life"}

NextShutdown ==
    \/ Tick
    \/ Dispatch
    \/ Api({"r1"})
    \/ Lifecycle
    \/ \E conn, closing \in BOOLEAN : Signal(conn, closing)
    \/ \E conn \in BOOLEAN : UncaughtException(conn)
    \/ Disconnected

SpecShutdown == InitShutdown /\ [][NextShutdown]_vars

(* ======================= properties ======================= *)

(* C1: every reminder id has at most one live timer (registered, not yet   *)
(* fired, not cancelled) in every reachable state.                         *)
C1_OneLiveTimerPerId ==
    \A id \in Ids : Cardinality(LiveTimers(id)) <= 1

(* C2: after scheduleReminder has registered a timer twice for an id, both *)
(* times with a future date and before any fire, the id has exactly one    *)
(* table entry and one live timer, and its callback runs exactly once:     *)
(* eventually once, never twice.                                           *)
C2_NoDuplicateFire ==
    \A id \in Ids :
        /\ [](regs[id] >= 2 =>
                /\ runs[id] <= 1
                /\ runs[id] = 0 =>
                      /\ id \in DOMAIN scheduledJobs
                      /\ LiveTimers(id) = {scheduledJobs[id]})
        /\ (regs[id] >= 2) ~> (runs[id] = 1)

C2_Witness ==
    \E id \in Ids :
        /\ regs[id] >= 2
        /\ runs[id] = 1
        /\ LiveTimers(id) = {}
        /\ id \in DOMAIN store
        /\ store[id].status = "sent"

(* C3: no two dispatches of the same reminder id are past the              *)
(* pending-status re-fetch check at the same time.                         *)
C3_OneDispatchPastCheck ==
    \A id \in Ids : Cardinality(PastCheck(id)) <= 1

(* C4: across creation, fire, dispatch, process death and restart with     *)
(* restorePendingReminders, at most one successful transport send ever     *)
(* occurs for a reminder id.                                               *)
C4_NoDoubleSend ==
    \A id \in Ids : sends[id] <= 1

C4_Witness ==
    \E id \in Ids :
        /\ sends[id] = 1
        /\ last.op = "restore"
        /\ last.ret
        /\ id \in DOMAIN store
        /\ store[id].status = "pending"
        /\ id \notin DOMAIN scheduledJobs

(* C5: every reminder selected by the query of restorePendingReminders     *)
(* has a live table entry when the routine completes.                      *)
C5_RecoveryLosesNothing ==
    [][(phase = "restoring" /\ phase' = "serving")
        => \A id \in restoreSet :
              /\ id \in DOMAIN scheduledJobs'
              /\ jobs'[scheduledJobs'[id]].st = "live"]_vars

(* C6: when restorePendingReminders completes, the table holds an entry    *)
(* for exactly the records that are pending with scheduledAt strictly      *)
(* after the current time; pending records that are due or overdue and     *)
(* sent or failed records get none, and the routine writes nothing to the  *)
(* store.                                                                  *)
C6_RestoreOnlyPendingFuture ==
    [][/\ (phase = "restoring" /\ phase' = "serving")
            => \A id \in Ids :
                  id \in DOMAIN scheduledJobs'
                      <=> /\ id \in DOMAIN store
                          /\ store[id].status = "pending"
                          /\ store[id].dateTime > now
       /\ phase \in {"start", "restoring"} => store' = store]_vars

C6_Witness ==
    /\ last.op = "restore"
    /\ last.ret
    /\ \E b \in DOMAIN store :
          /\ store[b].status = "pending"
          /\ store[b].dateTime <= now
          /\ b \notin DOMAIN scheduledJobs

(* C7: a scheduleReminder call whose scheduledAt is a valid date equal to  *)
(* or earlier than the current time returns false and leaves no table      *)
(* entry for that id.                                                      *)
C7_FutureOnly ==
    (last.op = "schedule" /\ last.arg # InvalidDate /\ last.arg <= now)
        => (~last.ret /\ last.id \notin DOMAIN scheduledJobs)

C7_Witness ==
    /\ last.op = "schedule"
    /\ last.arg = now
    /\ now > 0
    /\ ~last.ret
    /\ last.id \notin DOMAIN scheduledJobs

(* C8: once cancelScheduledReminder(id) has returned, no timer registered  *)
(* for that id before the call begins a dispatch.                          *)
C8_CancelPreventsDispatch ==
    [][\A h \in Handles :
          (jobs[h].st = "live" /\ jobs'[h].st = "run")
              => jobs[h].id \notin cancelled]_vars

(* C9: a dispatch whose re-fetch finds the record absent or not pending    *)
(* is over with that step, before any transport call: it writes nothing to *)
(* the store and the table entry of its id is removed.                     *)
C9_AbortOnAbsentOrProcessed ==
    [][\A h \in Handles :
          (/\ jobs[h].st = "run"
           /\ jobs[h].pc = "fetch"
           /\ jobs'[h] # jobs[h]
           /\ \/ jobs[h].id \notin DOMAIN store
              \/ store[jobs[h].id].status # "pending")
              => /\ jobs'[h].st = "free"
                 /\ store' = store
                 /\ jobs[h].id \notin DOMAIN scheduledJobs']_vars

C9_Witness ==
    /\ last.op = "abort"
    /\ last.ret
    /\ last.id \in usedIds
    /\ last.id \notin DOMAIN store
    /\ last.id \notin DOMAIN scheduledJobs

(* C10: the status of a record only ever changes from pending to sent or   *)
(* from pending to failed.                                                 *)
C10_TerminalStatus ==
    [][\A id \in DOMAIN store \cap DOMAIN store' :
          store'[id].status # store[id].status
              => /\ store[id].status = "pending"
                 /\ store'[id].status \in {"sent", "failed"}]_vars

(* C11: in every store state sentAt is set only on a record whose status   *)
(* is sent and error only on a record whose status is failed; the status   *)
(* write of a dispatch with a success result leaves status sent, sentAt    *)
(* set and error clear, the one of a dispatch with a failure result leaves *)
(* status failed, error equal to the failure description and sentAt as it  *)
(* was.                                                                    *)
C11_SentAtErrorMatchStatus ==
    [][/\ \A id \in DOMAIN store' :
              /\ store'[id].sentAt => store'[id].status = "sent"
              /\ store'[id].error # "none" => store'[id].status = "failed"
       /\ \A h \in Handles :
              (/\ jobs[h].st = "run"
               /\ jobs[h].pc = "save"
               /\ jobs'[h] # jobs[h]
               /\ last'.op = "save"
               /\ last'.ret)
                  => LET id == jobs[h].id IN
                     IF jobs[h].result = "ok"
                     THEN /\ store'[id].status = "sent"
                          /\ store'[id].sentAt
                          /\ store'[id].error = "none"
                     ELSE /\ store'[id].status = "failed"
                          /\ store'[id].error = jobs[h].err
                          /\ store'[id].sentAt = store[id].sentAt]_vars

(* C12: one dispatch makes at most 3 sendMail calls and none after a call  *)
(* succeeded; a dispatch that settles with a transport failure has made    *)
(* exactly 3 calls, all failed, and its status write leaves status failed. *)
C12_RetryBound ==
    [][\A h \in Handles :
          /\ jobs'[h].calls <= 3
          /\ (jobs[h].st = "run" /\ jobs[h].result = "ok")
                => jobs'[h].calls \in {jobs[h].calls, 0}
          /\ (jobs[h].pc = "send" /\ jobs'[h].pc = "save"
                                  /\ jobs'[h].result = "fail")
                => jobs'[h].calls = 3
          /\ (jobs[h].pc = "send" /\ jobs[h].calls < 2
                                  /\ last'.op = "sendMail" /\ ~last'.ret
                                  /\ jobs'[h] # jobs[h])
                => jobs'[h].pc = "sleep"
          /\ (/\ jobs[h].pc = "save"
              /\ jobs[h].result = "fail"
              /\ jobs[h].calls > 0
              /\ jobs'[h] # jobs[h]
              /\ last'.op = "save"
              /\ last'.ret)
                => /\ jobs[h].calls = 3
                   /\ store'[jobs[h].id].status = "failed"]_vars

C12_Witness ==
    /\ last.op = "sendMail"
    /\ ~last.ret
    /\ \E h \in Handles :
          /\ jobs[h].st = "run"
          /\ jobs[h].id = last.id
          /\ jobs[h].pc = "save"
          /\ jobs[h].result = "fail"
          /\ jobs[h].calls = 3

(* C13: after the 1st failed sendMail the retry loop sleeps 700 ms, after  *)
(* the 2nd 1400 ms; after the 3rd it does not sleep and returns a failure  *)
(* result that carries the error of the 3rd attempt.                       *)
C13_LinearBackoff ==
    [][\A h \in Handles :
          (/\ jobs[h].st = "run"
           /\ jobs[h].pc = "send"
           /\ jobs'[h] # jobs[h]
           /\ last'.op = "sendMail"
           /\ ~last'.ret)
              => /\ jobs[h].calls = 0
                    => jobs'[h].pc = "sleep" /\ jobs'[h].backoff = 700
                 /\ jobs[h].calls = 1
                    => jobs'[h].pc = "sleep" /\ jobs'[h].backoff = 1400
                 /\ jobs[h].calls = 2
                    => /\ jobs'[h].pc = "save"
                       /\ jobs'[h].backoff = 0
                       /\ jobs'[h].result = "fail"
                       /\ jobs'[h].err = "E3"]_vars

C13_Witness ==
    /\ last.op = "sendMail"
    /\ ~last.ret
    /\ \E h \in Handles :
          /\ jobs[h].st = "run"
          /\ jobs[h].id = last.id
          /\ jobs[h].pc = "sleep"
          /\ jobs[h].calls = 2
          /\ jobs[h].backoff = 1400

(* C14: while the dispatch of one reminder is in retry backoff, a due      *)
(* timer of another reminder can fire, every step of another dispatch can  *)
(* be taken up to its status write, and scheduleReminder and               *)
(* cancelScheduledReminder calls are served.                               *)
C14_BackoffBlocksNobody ==
    \A h \in Handles :
        (jobs[h].st = "run" /\ jobs[h].pc = "sleep") =>
            /\ \A g \in Handles \ {h} :
                  /\ (jobs[g].st = "live" /\ now >= jobs[g].at)
                        => ENABLED TimerFire(g)
                  /\ (jobs[g].st = "run" /\ jobs[g].pc = "fetch")
                        => ENABLED Refetch(g, TRUE)
                  /\ (jobs[g].st = "run" /\ jobs[g].pc = "send")
                        => ENABLED SendMail(g, TRUE)
                  /\ (jobs[g].st = "run" /\ jobs[g].pc = "save")
                        => ENABLED SaveStatus(g, TRUE)
            /\ phase = "serving" =>
                  \A id \in Ids :
                      /\ ENABLED CancelScheduledReminder(id)
                      /\ (id \in usedIds /\ FreeHandles(jobs) # {})
                            => \A dt \in Times : ENABLED ScheduleReminder(id, dt)

C14_Witness ==
    \E h \in Handles :
        /\ jobs[h].st = "run"
        /\ jobs[h].id = "r1"
        /\ jobs[h].pc = "sleep"
        /\ seen[h] = {"fire", "done", "schedule", "cancel"}
        /\ "r2" \in DOMAIN store
        /\ store["r2"].status = "sent"

(* C15: with no transporter configured no dispatch is ever in a sendMail   *)
(* call or in a backoff sleep and none has made a sendMail call; the       *)
(* dispatch of an email reminder gets the failure result "Transporter not  *)
(* configured" in the step that enters _processReminder, and its status    *)
(* write leaves status failed with that error.                             *)
C15_UnconfiguredFailsFast ==
    [][\A h \in Handles :
          /\ ~emailTransporter' =>
                /\ jobs'[h].pc \notin {"send", "sleep"}
                /\ jobs'[h].calls = 0
          /\ (/\ ~emailTransporter
              /\ jobs[h].st = "run"
              /\ jobs[h].pc = "fetch"
              /\ jobs'[h] # jobs[h]
              /\ last'.op = "process"
              /\ store[jobs[h].id].notificationType = "email")
                => /\ jobs'[h].pc = "save"
                   /\ jobs'[h].result = "fail"
                   /\ jobs'[h].err = "Transporter not configured"
                   /\ jobs'[h].backoff = 0
          /\ (/\ jobs[h].st = "run"
              /\ jobs[h].pc = "save"
              /\ jobs[h].err = "Transporter not configured"
              /\ jobs'[h] # jobs[h]
              /\ last'.op = "save"
              /\ last'.ret)
                => /\ store'[jobs[h].id].status = "failed"
                   /\ store'[jobs[h].id].error
                         = "Transporter not configured"]_vars

C15_Witness ==
    /\ ~emailTransporter
    /\ last.op = "save"
    /\ last.ret
    /\ store[last.id].notificationType = "email"
    /\ store[last.id].status = "failed"
    /\ store[last.id].error = "Transporter not configured"

(* C16: the dispatch of an sms reminder is never in a sendMail call or in  *)
(* a backoff sleep and makes no sendMail call, with or without a           *)
(* transporter; it gets the failure result "SMS not implemented" in the    *)
(* step that enters _processReminder, and its status write leaves status   *)
(* failed with that error.                                                 *)
C16_SmsNotImplemented ==
    [][\A h \in Handles :
          /\ (/\ jobs'[h].st = "run"
              /\ jobs'[h].id \in DOMAIN store'
              /\ store'[jobs'[h].id].notificationType = "sms")
                => /\ jobs'[h].pc \notin {"send", "sleep"}
                   /\ jobs'[h].calls = 0
          /\ (/\ jobs[h].st = "run"
              /\ jobs[h].pc = "fetch"
              /\ jobs'[h] # jobs[h]
              /\ last'.op = "process"
              /\ store[jobs[h].id].notificationType = "sms")
                => /\ jobs'[h].pc = "save"
                   /\ jobs'[h].result = "fail"
                   /\ jobs'[h].err = "SMS not implemented"
          /\ (/\ jobs[h].st = "run"
              /\ jobs[h].pc = "save"
              /\ jobs[h].err = "SMS not implemented"
              /\ jobs'[h] # jobs[h]
              /\ last'.op = "save"
              /\ last'.ret)
                => /\ store'[jobs[h].id].status = "failed"
                   /\ store'[jobs[h].id].error = "SMS not implemented"]_vars

C16_Witness ==
    /\ emailTransporter
    /\ last.op = "save"
    /\ last.ret
    /\ store[last.id].notificationType = "sms"
    /\ store[last.id].status = "failed"
    /\ store[last.id].error = "SMS not implemented"

(* C17: nothing is thrown out of the callback. A rejected re-fetch ends    *)
(* the dispatch with no store write, a failed sendMail leaves the dispatch *)
(* running, a failed status write ends it with the record as it was; the   *)
(* step that ends a dispatch leaves the process up and no table entry for  *)
(* the id, and every table entry references a timer that is live or whose  *)
(* dispatch is still running.                                              *)
C17_DispatchSwallowsFailures ==
    [][/\ last'.op # "throw"
       /\ \A id \in DOMAIN scheduledJobs' :
              /\ jobs'[scheduledJobs'[id]].st \in {"live", "run"}
              /\ jobs'[scheduledJobs'[id]].id = id
       /\ \A h \in Handles :
              /\ (/\ jobs[h].st = "run"
                  /\ jobs'[h] # jobs[h]
                  /\ last'.op \in {"abort", "save"})
                    => /\ jobs'[h].st = "free"
                       /\ jobs[h].id \notin DOMAIN scheduledJobs'
                       /\ phase' = phase
              /\ (/\ jobs[h].st = "run"
                  /\ jobs'[h] # jobs[h]
                  /\ \/ last'.op = "abort" /\ ~last'.ret
                     \/ last'.op = "save" /\ ~last'.ret)
                    => store' = store
              /\ (/\ jobs[h].st = "run"
                  /\ jobs'[h] # jobs[h]
                  /\ last'.op = "sendMail"
                  /\ ~last'.ret)
                    => /\ jobs'[h].st = "run"
                       /\ jobs'[h].pc \in {"sleep", "save"}
                       /\ scheduledJobs' = scheduledJobs]_vars

C17_Witness ==
    /\ last.op = "save"
    /\ ~last.ret
    /\ phase = "serving"
    /\ last.id \in DOMAIN store
    /\ store[last.id].status = "pending"
    /\ last.id \notin DOMAIN scheduledJobs
    /\ \A h \in Handles : jobs[h].st = "free"

(* the states the liveness of a dispatch is about *)
Scheduled(id) ==
    /\ id \in DOMAIN scheduledJobs
    /\ jobs[scheduledJobs[id]].st = "live"

Settled(id) ==
    /\ runs[id] >= 1
    /\ id \in DOMAIN store
    /\ store[id].status \in {"sent", "failed"}
    /\ id \notin DOMAIN scheduledJobs

RefetchFailed(id) == last.op = "abort" /\ last.id = id /\ ~last.ret

(* C18: a reminder with a live timer in the table, never cancelled or      *)
(* deleted, the process up, every transport call returning and every       *)
(* status write succeeding, eventually has had its timer fire, has status  *)
(* sent or failed and has no table entry.                                  *)
C18_EventuallySettled ==
    \A id \in Ids : Scheduled(id) ~> Settled(id)

(* the same property of the dispatches whose re-fetch is not rejected *)
EventuallySettledIfFetched ==
    \A id \in Ids : Scheduled(id) ~> (Settled(id) \/ RefetchFailed(id))

(* C19: cancelScheduledReminder on an id with no table entry returns false *)
(* and changes neither the table nor any timer; on an id with an entry it  *)
(* returns true, the timer of the entry is not live afterwards, only that  *)
(* entry is removed and every other timer is as it was.                    *)
C19_CancelFrame ==
    [][last'.op = "cancel" =>
          LET id == last'.id IN
          IF id \notin DOMAIN scheduledJobs
          THEN /\ ~last'.ret
               /\ scheduledJobs' = scheduledJobs
               /\ jobs' = jobs
          ELSE /\ last'.ret
               /\ scheduledJobs' = Without(scheduledJobs, id)
               /\ jobs'[scheduledJobs[id]].st # "live"
               /\ \A h \in Handles \ {scheduledJobs[id]} :
                      jobs'[h] = jobs[h]]_vars

C19_Witness ==
    /\ last.op = "cancel"
    /\ ~last.ret
    /\ \E other \in DOMAIN scheduledJobs :
          /\ other # last.id
          /\ jobs[scheduledJobs[other]].st = "live"

(* C20: the step of cancelAllScheduled leaves the table empty and every    *)
(* timer the table held cancelled: none of them is live afterwards, so     *)
(* none of them can fire.                                                  *)
C20_CancelAllClears ==
    [][last'.op = "cancelAll" =>
          /\ scheduledJobs' = Empty
          /\ \A id \in DOMAIN scheduledJobs :
                /\ jobs'[scheduledJobs[id]].st # "live"
                /\ jobs[scheduledJobs[id]].st = "live"
                      => jobs'[scheduledJobs[id]] = FreeJob]_vars

C20_Witness ==
    /\ last.op = "cancelAll"
    /\ last.arg = 2
    /\ phase = "serving"
    /\ scheduledJobs = Empty
    /\ \A h \in Handles : jobs[h].st = "free"
    /\ \A id \in Ids : id \in DOMAIN store /\ store[id].status = "pending"

(* C21: in every life of the process restorePendingReminders is called at  *)
(* most once, only after connectDB resolved, and has been called once and  *)
(* has settled when the server listens; no call made by a route            *)
(* (scheduleReminder, cancelScheduledReminder, a record created or         *)
(* deleted) happens before that.                                           *)
C21_RestoreOnceBeforeListen ==
    [][/\ life'.restores <= 1
       /\ life'.restores > life.restores => phase = "start"
       /\ phase' = "serving" => life'.restores = 1 /\ restoreSet' = {}
       /\ last'.op \in {"schedule", "cancel", "created", "deleted",
                        "adminDelete"}
             => /\ phase = "serving"
                /\ life.restores = 1
                /\ restoreSet = {}]_vars

C21_Witness ==
    /\ last.op = "created"
    /\ life.restores = 1
    /\ now > 0
    /\ phase = "serving"

(* C22: every step in which the process exits through gracefulShutdown     *)
(* (a signal, an uncaught exception, the end of the disconnect) comes      *)
(* after a call of cancelAllScheduled made in this life of the process,    *)
(* also when two listeners run gracefulShutdown for one signal.            *)
C22_CancelAllBeforeExit ==
    [][(phase # "down" /\ phase' = "down" /\ last'.op \in {"shutdown", "exit"})
          => life'.cancelAlls >= 1]_vars

C22_Witness ==
    /\ phase = "down"
    /\ last.op = "shutdown"
    /\ last.arg = 2
    /\ life.cancelAlls = 2

(* C23: scheduleReminder and cancelScheduledReminder never throw: no call  *)
(* of either, whatever the reminder or the id, ends in an exception.       *)
C23_NeverThrow == last.op \notin {"scheduleThrow", "cancelThrow"}

(* C24: in the delete route cancelScheduledReminder is called after the    *)
(* record has been deleted from the store: at the step of the route that   *)
(* cancels, the record is no longer stored.                                *)
C24_CancelAfterDelete ==
    [][(last'.op = "cancel" /\ last'.id \in deleting' \ deleting)
          => last'.id \notin DOMAIN store']_vars

(* C25: when scheduleReminder returns false for the reminder POST has just *)
(* created, the reply of POST is an error status, not a success.           *)
C25_CreateSurfacesFailure ==
    [][(/\ last'.op = "schedule"
        /\ ~last'.ret
        /\ last'.id \in DOMAIN posting
        /\ last'.id \notin DOMAIN posting')
          => replies'[last'.id] >= 400]_vars

(* C26: when a route has deleted records from the store (the delete of one *)
(* reminder, the admin deletion of a user's reminders), the table holds no *)
(* entry for a record that step removed.                                   *)
C26_DeleteCancelsTimer ==
    [][(last'.op = "adminDelete" \/ (last'.op = "deleted" /\ last'.ret))
          => (DOMAIN store \ DOMAIN store') \cap DOMAIN scheduledJobs' = {}]_vars

(* C27: every live timer is the one the table holds under its reminder id. *)
C27_LiveTimerInTable ==
    \A h \in Handles :
        jobs[h].st = "live"
            => /\ jobs[h].id \in DOMAIN scheduledJobs
               /\ scheduledJobs[jobs[h].id] = h

(* C28: a call of scheduleReminder that returns false leaves the table and *)
(* the timers as they were.                                                *)
C28_RefusalLeavesTable ==
    [][(last'.op = "schedule" /\ ~last'.ret)
          => scheduledJobs' = scheduledJobs /\ jobs' = jobs]_vars

(* C29: a stored reminder with status sent has had a successful transport  *)
(* send made for it by a dispatch.                                         *)
C29_SentHadSend ==
    \A id \in DOMAIN store : store[id].status = "sent" => sends[id] >= 1

C29_Witness ==
    \E id, other \in DOMAIN store :
        /\ store[id].status = "sent"
        /\ sends[id] = 1
        /\ store[other].status = "failed"
        /\ sends[other] = 0

(* C30: restorePendingReminders never rejects; when its store query fails  *)
(* it registers no timer, leaves the table as it was, and the start-up     *)
(* goes on to listen.                                                      *)
C30_RestoreNeverRejects ==
    [][/\ last'.op # "restoreReject"
       /\ (last'.op = "restore" /\ ~last'.ret)
             => /\ scheduledJobs' = scheduledJobs
                /\ jobs' = jobs
                /\ phase' = "serving"]_vars

C30_Witness ==
    /\ last.op = "restore"
    /\ ~last.ret
    /\ phase = "serving"
    /\ scheduledJobs = Empty
    /\ \E id \in DOMAIN store :
          store[id].status = "pending" /\ store[id].dateTime > now
====
